---- MODULE Spec2Model ----
(***************************************************************************)
(* Model of cardboard/flask_integration.py: the five route decorators of   *)
(* FlaskIntegration (autologin, login_code, login_autoexchange, logged_in, *)
(* autologout) as per-request state machines over the Flask session.       *)
(*                                                                         *)
(* A request is split at the calls that leave the decorator: check_token,  *)
(* refresh_token, asyncpost (the code exchange), revoke_token and the      *)
(* wrapped route_function.  Everything the decorator does between two such *)
(* calls is one step.  The outcome of each external call is chosen by the  *)
(* environment: check_token answers true or false or raises, refresh_token *)
(* answers an AuthToken or raises, asyncpost answers the 200 json, a       *)
(* status code, or raises, revoke_token returns or raises.                 *)
(***************************************************************************)
EXTENDS Integers, Sequences, FiniteSets, TLC

VARIABLES session, req, now

vars == <<session, req, now>>

----------------------------------------------------------------------------
(* Bounds *)

MaxTime == 2
MaxExpiresIn == 2

----------------------------------------------------------------------------
(* Values *)

\* Browser sessions known to the host framework, and the ones that send requests.
Sessions == {"s1", "s2"}
Active == {"s1"}

\* __init__: the four session keys, with the default prefix "cardboard_".
session_token == "cardboard_token"
session_refresh == "cardboard_refresh"
session_expiry == "cardboard_expiry"
session_rd == "cardboard_rd"
Keys == {session_token, session_refresh, session_expiry, session_rd}

\* __init__: the login URL every failed check redirects to.
app_login_redirect == "https://login"

Tokens == {"T1", "T2"}
Refreshes == {"R1", "R2"}
\* request.args.get('code'): "" stands for a missing (None) code.
Codes == {"", "c1"}
\* request.url of the routes of the application.
Urls == {"/a", "/b"}
\* What a wrapped route function returns.
Results == {"page"}
Statuses == {400}

\* round(time.time()) can take these values.
Times == 1..MaxTime
ExpiresIns == 1..MaxExpiresIn
Expiries == 0..(MaxTime + MaxExpiresIn)

\* A session is a dict: a function from the keys it holds to their values.
EmptySession == [k \in {} |-> ""]

\* dict.get(k) is falsy when the key is missing, None, "" or 0.
Truthy(sess, k) ==
    /\ k \in DOMAIN sess
    /\ IF k = session_expiry THEN sess[k] /= 0 ELSE sess[k] /= ""

\* session.pop(k, None)
pop(sess, k) == [x \in (DOMAIN sess) \ {k} |-> sess[x]]

\* session[k] = v
put(sess, k, v) == [x \in (DOMAIN sess) \cup {k} |-> IF x = k THEN v ELSE sess[x]]

\* session.get(k) of a string key, with "" for None.
get(sess, k) == IF k \in DOMAIN sess THEN sess[k] ELSE ""

----------------------------------------------------------------------------
(* First argument handed to the wrapped route function *)

NoneArg == [kind |-> "None", token |-> "", refresh_token |-> "", expires_in |-> 0]
NoArg == [kind |-> "noarg", token |-> "", refresh_token |-> "", expires_in |-> 0]
StrArg(t) == [kind |-> "str", token |-> t, refresh_token |-> "", expires_in |-> 0]

\* self.cb.AuthToken(data): token, refresh_token and expires_in read from data.
AuthToken(data) ==
    [kind |-> "AuthToken", token |-> data.access_token,
     refresh_token |-> data.refresh_token, expires_in |-> data.expires_in]

\* Variant of _constructAuthToken: the stored expiry is passed as expires_in.
_constructAuthToken_absolute(token, expiry, refresh, t) ==
    AuthToken([access_token |-> token, refresh_token |-> refresh,
               expires_in |-> expiry, token_type |-> "Bearer"])

\* _constructAuthToken(token, expiry, refresh) at time t = round(time.time())
_constructAuthToken(token, expiry, refresh, t) ==
    AuthToken([access_token |-> token, refresh_token |-> refresh,
               expires_in |-> expiry - t, token_type |-> "Bearer"])

----------------------------------------------------------------------------
(* Responses and outcomes of the external calls *)

NoResp == [kind |-> "none", val |-> ""]
redirect(u) == [kind |-> "redirect", val |-> u]
Returned(v) == [kind |-> "result", val |-> v]
Raised == [kind |-> "exception", val |-> ""]

CheckOutcomes == {"true", "false", "raise"}
RevokeOutcomes == {"ok", "raise"}

Json(T, R, E) == [kind |-> "json", status |-> 200, access_token |-> T, refresh_token |-> R, expires_in |-> E]
Status(n) == [kind |-> "status", status |-> n, access_token |-> "", refresh_token |-> "", expires_in |-> 0]
RaiseOut == [kind |-> "raise", status |-> 0, access_token |-> "", refresh_token |-> "", expires_in |-> 0]
NoOut == [kind |-> "none", status |-> 0, access_token |-> "", refresh_token |-> "", expires_in |-> 0]

\* __init__, lines 24-25: the credentials of the Cardboard app.
client_id == "id"
secret == "secret"

\* autologin, lines 97-103 (login_autoexchange, lines 180-186): the form posted to /token.
exchange_data(code) ==
    [code |-> code, client_id |-> client_id, client_secret |-> secret,
     grant_type |-> "authorization_code"]
NoData == [code |-> "", client_id |-> "", client_secret |-> "", grant_type |-> ""]

\* asyncpost: the json of a 200 answer, else the status code; the HTTP client may raise.
PostOutcomes ==
    {Json(T, R, E) : <<T, R, E>> \in Tokens \X Refreshes \X ExpiresIns}
        \cup {Status(n) : n \in Statuses} \cup {RaiseOut}

\* cb.refresh_token: a new AuthToken, or raises on an invalid refresh token.
RefreshOutcomes ==
    {Json(T, R, E) : <<T, R, E>> \in Tokens \X Refreshes \X ExpiresIns} \cup {RaiseOut}

----------------------------------------------------------------------------
(* The request in flight on a session *)

\* How far the requests on a session have come in a login round trip:
\* stage 1 after a logged_in request at url that found no stored token and
\* redirected to login, stage 2 after the autologin request that followed it
\* exchanged its code with a 200 answer, stage 0 otherwise.
NoTrip == [stage |-> 0, url |-> ""]

IdleReq ==
    [dec |-> "none", pc |-> "idle", code |-> "", url |-> "",
     thetoken |-> "", ot |-> "", log |-> <<>>, data |-> NoData, got |-> NoOut,
     harg |-> NoneArg, hsess |-> EmptySession, hnow |-> 0,
     sess0 |-> EmptySession, resp |-> NoResp, trip |-> NoTrip, loggedout |-> "no"]

\* A request arrives at a decorated route: request.args, request.url, session.
NewReq(dec, code, url, sess) ==
    [IdleReq EXCEPT !.dec = dec, !.pc = "begin", !.code = code, !.url = url, !.sess0 = sess]

\* The stage of the round trip once the request r0 is over.
TripNext(r0) ==
    IF /\ r0.dec = "logged_in"
       /\ ~Truthy(r0.sess0, session_token)
       /\ r0.pc = "done"
       /\ r0.resp = redirect(app_login_redirect)
    THEN [stage |-> 1, url |-> r0.url]
    ELSE IF /\ r0.trip.stage = 1
            /\ r0.dec = "autologin"
            /\ r0.pc = "done"
            /\ r0.code /= ""
            /\ r0.got.kind = "json"
         THEN [stage |-> 2, url |-> r0.trip.url]
         ELSE NoTrip

\* Whether the session has been logged out and not logged in since, once the
\* request r0 is over: "no", or how the autologout request went ("no_token"
\* when it found no token to revoke, "revoked", "revoke_failed").
LoggedOutNext(r0) ==
    IF r0.dec = "autologout" /\ r0.pc = "done"
    THEN IF r0.log[1].op /= "revoke_token" THEN "no_token"
         ELSE IF r0.log[2].arg = "raise" THEN "revoke_failed" ELSE "revoked"
    ELSE IF r0.dec = "autologin" /\ r0.got.kind = "json"
         THEN "no"
         ELSE r0.loggedout

\* The next request on the session of r0 arrives.
Arrive(r0, dec, code, url, sess) ==
    [NewReq(dec, code, url, sess) EXCEPT !.trip = TripNext(r0),
                                        !.loggedout = LoggedOutNext(r0)]

Ev(op, arg) == [op |-> op, arg |-> arg]

\* The decorator calls out: op is in flight with argument arg.
Call(r, op, arg) == [r EXCEPT !.pc = op, !.log = Append(@, Ev(op, arg))]

\* The call in flight returned (or raised): out is what came back.
Ret(r, out) == [r EXCEPT !.log = Append(@, Ev("returned", out))]

\* asyncpost or refresh_token came back with out (json, status or raise).
RetJson(r, out) == [Ret(r, out.kind) EXCEPT !.got = out]

\* loop.run_until_complete(self.asyncpost(url, data=data, headers=...))
Post(r) == [Call(r, "asyncpost", r.code) EXCEPT !.data = exchange_data(r.code)]

\* route_function(arg, *args, **kwargs) is entered with the session as it is now.
Invoke(r, arg, sess, t) ==
    [r EXCEPT !.pc = "route_function", !.harg = arg, !.hsess = sess, !.hnow = t,
              !.log = Append(@, Ev("route_function", arg.token))]

\* The decorator returns resp (or an exception leaves it).
Respond(r, resp) == [r EXCEPT !.pc = "done", !.resp = resp]

Free(s) == req[s].pc \in {"idle", "done"}

Count(log, op) == Cardinality({i \in DOMAIN log : log[i].op = op})

----------------------------------------------------------------------------
(* autologin *)

\* Variant of autologin_code: without a code the handler is called with None,
\* as login_autoexchange does, instead of redirecting.
autologin_code_passes_None(r) ==
    IF r.code /= ""
    THEN Post(r)
    ELSE Invoke(r, NoneArg, r.sess0, 0)

\* autologin, lines 96-110: no valid stored token; exchange the code or redirect.
autologin_code(r) ==
    IF r.code /= ""
    THEN Post(r)
    ELSE Respond(r, redirect(app_login_redirect))

\* autologin, lines 82-91: the stored token passed check_token.
autologin_valid(r, sess, t) ==
    IF Truthy(sess, session_expiry) /\ Truthy(sess, session_refresh)
    THEN Invoke(r, _constructAuthToken(r.thetoken, sess[session_expiry], sess[session_refresh], t), sess, t)
    ELSE IF Truthy(sess, session_refresh)
         THEN Call(r, "refresh_token", sess[session_refresh])
         ELSE Invoke(r, StrArg(r.thetoken), sess, t)

\* Variant of autologin_persist: expires_in is stored as if it were the expiry.
autologin_persist_relative(sess, token, t) ==
    put(put(put(sess, session_token, token.token),
            session_expiry, token.expires_in),
        session_refresh, token.refresh_token)

\* Variant of autologin_persist: the access token itself is not stored.
autologin_persist_no_token(sess, token, t) ==
    put(put(sess, session_expiry, t + token.expires_in),
        session_refresh, token.refresh_token)

\* Variant of autologin_persist: the refresh token is not stored.
autologin_persist_no_refresh(sess, token, t) ==
    put(put(sess, session_token, token.token),
        session_expiry, t + token.expires_in)

\* autologin, lines 111-113: the exchanged token is written to the session.
autologin_persist(sess, token, t) ==
    put(put(put(sess, session_token, token.token),
            session_expiry, t + token.expires_in),
        session_refresh, token.refresh_token)

\* Variant of autologin_finish: the pending redirect is read with get, not pop.
autologin_finish_keeps_rd(r, sess, result) ==
    IF Truthy(sess, session_rd)
    THEN [req |-> Respond(r, redirect(sess[session_rd])), session |-> sess]
    ELSE [req |-> Respond(r, Returned(result)), session |-> sess]

\* autologin, lines 92-95 and 115-118: after route_function returned result.
autologin_finish(r, sess, result) ==
    IF Truthy(sess, session_rd)
    THEN [req |-> Respond(r, redirect(sess[session_rd])), session |-> pop(sess, session_rd)]
    ELSE [req |-> Respond(r, Returned(result)), session |-> sess]

\* autologin, lines 79-81: a request arrives; the stored token is read and checked.
autologin(s) ==
    \E code \in Codes, url \in Urls :
        /\ Free(s)
        /\ LET r == Arrive(req[s], "autologin", code, url, session[s])
               thetoken == get(session[s], session_token)
           IN req' = [req EXCEPT ![s] =
                        IF Truthy(session[s], session_token)
                        THEN Call([r EXCEPT !.thetoken = thetoken], "check_token", thetoken)
                        ELSE autologin_code(r)]
        /\ UNCHANGED <<session, now>>

\* autologin, line 81: what check_token answered decides the branch; an
\* exception of check_token is not caught.
autologin_after_check(r, out, sess, t) ==
    CASE out = "true" -> autologin_valid(Ret(r, out), sess, t)
      [] out = "false" -> autologin_code(Ret(r, out))
      [] out = "raise" -> Respond(Ret(r, out), Raised)

\* autologin, line 81: check_token answers.
autologin_checked(s) ==
    \E out \in CheckOutcomes :
        /\ req[s].dec = "autologin"
        /\ req[s].pc = "check_token"
        /\ req' = [req EXCEPT ![s] = autologin_after_check(req[s], out, session[s], now)]
        /\ UNCHANGED <<session, now>>

\* autologin, lines 87-91: refresh_token answers.
autologin_refreshed(s) ==
    \E out \in RefreshOutcomes :
        /\ req[s].dec = "autologin"
        /\ req[s].pc = "refresh_token"
        /\ req' = [req EXCEPT ![s] =
                     IF out.kind = "raise"
                     THEN Respond(RetJson(req[s], out), redirect(app_login_redirect))
                     ELSE Invoke(RetJson(req[s], out), AuthToken(out), session[s], now)]
        /\ UNCHANGED <<session, now>>

\* Variant of autologin_exchanged: on a non-200 answer the requested URL is
\* recorded under rd before redirecting, as logged_in does.
autologin_exchanged_records_rd(s) ==
    \E out \in PostOutcomes :
        /\ req[s].dec = "autologin"
        /\ req[s].pc = "asyncpost"
        /\ CASE out.kind = "raise" ->
                  /\ req' = [req EXCEPT ![s] = Respond(RetJson(req[s], out), Raised)]
                  /\ UNCHANGED session
             [] out.kind = "status" ->
                  /\ req' = [req EXCEPT ![s] = Respond(RetJson(req[s], out), redirect(app_login_redirect))]
                  /\ session' = [session EXCEPT ![s] = put(@, session_rd, req[s].url)]
             [] out.kind = "json" ->
                  LET sess == autologin_persist(session[s], AuthToken(out), now)
                  IN /\ session' = [session EXCEPT ![s] = sess]
                     /\ req' = [req EXCEPT ![s] = Invoke(RetJson(req[s], out), AuthToken(out), sess, now)]
        /\ UNCHANGED now

\* Variant of autologin_exchanged: the exchanged token is kept in one place
\* shared by all sessions instead of the session of the request.
autologin_exchanged_shared(s) ==
    \E out \in PostOutcomes :
        /\ req[s].dec = "autologin"
        /\ req[s].pc = "asyncpost"
        /\ CASE out.kind = "raise" ->
                  /\ req' = [req EXCEPT ![s] = Respond(RetJson(req[s], out), Raised)]
                  /\ UNCHANGED session
             [] out.kind = "status" ->
                  /\ req' = [req EXCEPT ![s] = Respond(RetJson(req[s], out), redirect(app_login_redirect))]
                  /\ UNCHANGED session
             [] out.kind = "json" ->
                  LET sess == autologin_persist(session[s], AuthToken(out), now)
                  IN /\ session' = [x \in Sessions |-> autologin_persist(session[x], AuthToken(out), now)]
                     /\ req' = [req EXCEPT ![s] = Invoke(RetJson(req[s], out), AuthToken(out), sess, now)]
        /\ UNCHANGED now

\* autologin, lines 105-114: asyncpost answers.
autologin_exchanged(s) ==
    \E out \in PostOutcomes :
        /\ req[s].dec = "autologin"
        /\ req[s].pc = "asyncpost"
        /\ CASE out.kind = "raise" ->
                  /\ req' = [req EXCEPT ![s] = Respond(RetJson(req[s], out), Raised)]
                  /\ UNCHANGED session
             [] out.kind = "status" ->
                  /\ req' = [req EXCEPT ![s] = Respond(RetJson(req[s], out), redirect(app_login_redirect))]
                  /\ UNCHANGED session
             [] out.kind = "json" ->
                  LET sess == autologin_persist(session[s], AuthToken(out), now)
                  IN /\ session' = [session EXCEPT ![s] = sess]
                     /\ req' = [req EXCEPT ![s] = Invoke(RetJson(req[s], out), AuthToken(out), sess, now)]
        /\ UNCHANGED now

\* autologin, lines 91-95 and 114-118: route_function returns.
autologin_returned(s) ==
    \E result \in Results :
        /\ req[s].dec = "autologin"
        /\ req[s].pc = "route_function"
        /\ LET f == autologin_finish(req[s], session[s], result)
           IN /\ req' = [req EXCEPT ![s] = f.req]
              /\ session' = [session EXCEPT ![s] = f.session]
        /\ UNCHANGED now

----------------------------------------------------------------------------
(* login_code *)

\* Variant of login_code_code: the code is exchanged instead of passed on.
login_code_code_exchanges(r, sess, t) ==
    IF r.code = ""
    THEN Respond(r, redirect(app_login_redirect))
    ELSE Post(r)

\* login_code, lines 147-150: no valid stored token; pass the raw code or redirect.
login_code_code(r, sess, t) ==
    IF r.code = ""
    THEN Respond(r, redirect(app_login_redirect))
    ELSE Invoke(r, StrArg(r.code), sess, t)

\* login_code, lines 144-145: a request arrives.
login_code(s) ==
    \E code \in Codes, url \in Urls :
        /\ Free(s)
        /\ LET r == Arrive(req[s], "login_code", code, url, session[s])
               thetoken == get(session[s], session_token)
           IN req' = [req EXCEPT ![s] =
                        IF Truthy(session[s], session_token)
                        THEN Call([r EXCEPT !.thetoken = thetoken], "check_token", thetoken)
                        ELSE login_code_code(r, session[s], now)]
        /\ UNCHANGED <<session, now>>

\* login_code, lines 145-146: check_token answers.
login_code_checked(s) ==
    \E out \in CheckOutcomes :
        /\ req[s].dec = "login_code"
        /\ req[s].pc = "check_token"
        /\ req' = [req EXCEPT ![s] =
                     CASE out = "true" -> Invoke(Ret(req[s], out), NoneArg, session[s], now)
                       [] out = "false" -> login_code_code(Ret(req[s], out), session[s], now)
                       [] out = "raise" -> Respond(Ret(req[s], out), Raised)]
        /\ UNCHANGED <<session, now>>

\* login_code, lines 146 and 150: route_function returns.
login_code_returned(s) ==
    \E result \in Results :
        /\ req[s].dec = "login_code"
        /\ req[s].pc = "route_function"
        /\ req' = [req EXCEPT ![s] = Respond(req[s], Returned(result))]
        /\ UNCHANGED <<session, now>>

----------------------------------------------------------------------------
(* login_autoexchange *)

\* login_autoexchange, lines 179-195: no valid stored token; exchange the code
\* or pass None.
login_autoexchange_code(r, sess, t) ==
    IF r.code /= ""
    THEN Post(r)
    ELSE Invoke(r, NoneArg, sess, t)

\* login_autoexchange, lines 174-176: a request arrives.
login_autoexchange(s) ==
    \E code \in Codes, url \in Urls :
        /\ Free(s)
        /\ LET r == Arrive(req[s], "login_autoexchange", code, url, session[s])
               thetoken == get(session[s], session_token)
           IN req' = [req EXCEPT ![s] =
                        IF Truthy(session[s], session_token)
                        THEN Call([r EXCEPT !.thetoken = thetoken], "check_token", thetoken)
                        ELSE login_autoexchange_code(r, session[s], now)]
        /\ UNCHANGED <<session, now>>

\* login_autoexchange, lines 176-178: check_token answers.
login_autoexchange_checked(s) ==
    \E out \in CheckOutcomes :
        /\ req[s].dec = "login_autoexchange"
        /\ req[s].pc = "check_token"
        /\ req' = [req EXCEPT ![s] =
                     CASE out = "true" -> Invoke(Ret(req[s], out), StrArg(req[s].thetoken), session[s], now)
                       [] out = "false" -> login_autoexchange_code(Ret(req[s], out), session[s], now)
                       [] out = "raise" -> Respond(Ret(req[s], out), Raised)]
        /\ UNCHANGED <<session, now>>

\* Variant of login_autoexchange_exchanged: a non-200 answer redirects to
\* login, as in autologin.
login_autoexchange_exchanged_redirects(s) ==
    \E out \in PostOutcomes :
        /\ req[s].dec = "login_autoexchange"
        /\ req[s].pc = "asyncpost"
        /\ req' = [req EXCEPT ![s] =
                     CASE out.kind = "raise" -> Respond(RetJson(req[s], out), Raised)
                       [] out.kind = "status" -> Respond(RetJson(req[s], out), redirect(app_login_redirect))
                       [] out.kind = "json" -> Invoke(RetJson(req[s], out), AuthToken(out), session[s], now)]
        /\ UNCHANGED <<session, now>>

\* login_autoexchange, lines 188-195: asyncpost answers.
login_autoexchange_exchanged(s) ==
    \E out \in PostOutcomes :
        /\ req[s].dec = "login_autoexchange"
        /\ req[s].pc = "asyncpost"
        /\ req' = [req EXCEPT ![s] =
                     CASE out.kind = "raise" -> Respond(RetJson(req[s], out), Raised)
                       [] out.kind = "status" -> Invoke(RetJson(req[s], out), NoneArg, session[s], now)
                       [] out.kind = "json" -> Invoke(RetJson(req[s], out), AuthToken(out), session[s], now)]
        /\ UNCHANGED <<session, now>>

\* login_autoexchange, lines 178 and 195: route_function returns.
login_autoexchange_returned(s) ==
    \E result \in Results :
        /\ req[s].dec = "login_autoexchange"
        /\ req[s].pc = "route_function"
        /\ req' = [req EXCEPT ![s] = Respond(req[s], Returned(result))]
        /\ UNCHANGED <<session, now>>

----------------------------------------------------------------------------
(* logged_in *)

\* Variant of logged_in_redirect: redirects without recording the requested URL.
logged_in_redirect_no_rd(r, sess) ==
    [req |-> Respond(r, redirect(app_login_redirect)), session |-> sess]

\* Variant of logged_in_redirect: a code in the query string is exchanged, as
\* autologin does.
logged_in_redirect_exchanges(r, sess) ==
    IF r.code /= ""
    THEN [req |-> Post(r), session |-> sess]
    ELSE [req |-> Respond(r, redirect(app_login_redirect)),
          session |-> put(sess, session_rd, r.url)]

\* logged_in, lines 226-227 and 230-231: record the requested URL, redirect to login.
logged_in_redirect(r, sess) ==
    [req |-> Respond(r, redirect(app_login_redirect)),
     session |-> put(sess, session_rd, r.url)]

\* Variant of logged_in_valid: a bare stored token is wrapped like the others.
logged_in_valid_wraps(r, sess, t) ==
    IF Truthy(sess, session_expiry) /\ Truthy(sess, session_refresh)
    THEN Invoke(r, _constructAuthToken(get(sess, session_token), sess[session_expiry], sess[session_refresh], t), sess, t)
    ELSE IF Truthy(sess, session_refresh)
         THEN Call(r, "refresh_token", sess[session_refresh])
         ELSE Invoke(r, _constructAuthToken(get(sess, session_token), t, "", t), sess, t)

\* logged_in, lines 218-228: the stored token passed check_token.
logged_in_valid(r, sess, t) ==
    IF Truthy(sess, session_expiry) /\ Truthy(sess, session_refresh)
    THEN Invoke(r, _constructAuthToken(get(sess, session_token), sess[session_expiry], sess[session_refresh], t), sess, t)
    ELSE IF Truthy(sess, session_refresh)
         THEN Call(r, "refresh_token", sess[session_refresh])
         ELSE Invoke(r, StrArg(get(sess, session_token)), sess, t)

\* logged_in, lines 216-217 and 229-231: a request arrives.
logged_in(s) ==
    \E code \in Codes, url \in Urls :
        /\ Free(s)
        /\ LET r == Arrive(req[s], "logged_in", code, url, session[s])
               thetoken == get(session[s], session_token)
               f == logged_in_redirect(r, session[s])
           IN IF Truthy(session[s], session_token)
              THEN /\ req' = [req EXCEPT ![s] =
                                Call([r EXCEPT !.thetoken = thetoken], "check_token", thetoken)]
                   /\ UNCHANGED session
              ELSE /\ req' = [req EXCEPT ![s] = f.req]
                   /\ session' = [session EXCEPT ![s] = f.session]
        /\ UNCHANGED now

\* Variant of logged_in_after_check: a stored token counts as valid whatever
\* check_token answered.
logged_in_after_check_unchecked(r, out, sess, t) ==
    CASE out \in {"true", "false"} -> [req |-> logged_in_valid(Ret(r, out), sess, t), session |-> sess]
      [] out = "raise" -> [req |-> Respond(Ret(r, out), Raised), session |-> sess]

\* logged_in, lines 217-231: what check_token answered decides the branch; an
\* exception of check_token is not caught.
logged_in_after_check(r, out, sess, t) ==
    CASE out = "true" -> [req |-> logged_in_valid(Ret(r, out), sess, t), session |-> sess]
      [] out = "false" -> logged_in_redirect(Ret(r, out), sess)
      [] out = "raise" -> [req |-> Respond(Ret(r, out), Raised), session |-> sess]

\* logged_in, lines 217-231: check_token answers.
logged_in_checked(s) ==
    \E out \in CheckOutcomes :
        /\ req[s].dec = "logged_in"
        /\ req[s].pc = "check_token"
        /\ LET f == logged_in_after_check(req[s], out, session[s], now)
           IN /\ req' = [req EXCEPT ![s] = f.req]
              /\ session' = [session EXCEPT ![s] = f.session]
        /\ UNCHANGED now

\* logged_in, lines 223-228: refresh_token answers.
logged_in_refreshed(s) ==
    \E out \in RefreshOutcomes :
        /\ req[s].dec = "logged_in"
        /\ req[s].pc = "refresh_token"
        /\ LET f == logged_in_redirect(RetJson(req[s], out), session[s])
           IN IF out.kind = "raise"
              THEN /\ req' = [req EXCEPT ![s] = f.req]
                   /\ session' = [session EXCEPT ![s] = f.session]
              ELSE /\ req' = [req EXCEPT ![s] = Invoke(RetJson(req[s], out), AuthToken(out), session[s], now)]
                   /\ UNCHANGED session
        /\ UNCHANGED now

\* logged_in, line 228: route_function returns.
logged_in_returned(s) ==
    \E result \in Results :
        /\ req[s].dec = "logged_in"
        /\ req[s].pc = "route_function"
        /\ req' = [req EXCEPT ![s] = Respond(req[s], Returned(result))]
        /\ UNCHANGED <<session, now>>

----------------------------------------------------------------------------
(* autologout *)

\* Variant of autologout_pops: the pending redirect is left in the session.
autologout_pops_keeps_rd(sess) ==
    pop(pop(pop(sess, session_token), session_expiry), session_refresh)

\* Variant of autologout_pops: the token is read with get and stays stored.
autologout_pops_keeps_token(sess) ==
    pop(pop(pop(sess, session_expiry), session_refresh), session_rd)

\* autologout, lines 248-251: the four keys are popped.
autologout_pops(sess) ==
    pop(pop(pop(pop(sess, session_token), session_expiry), session_refresh), session_rd)

\* autologout, lines 252-257: revoke the popped token if there is one, else
\* go on to route_function.
autologout_revoke(r, ot, sess, t) ==
    IF ot /= ""
    THEN Call([r EXCEPT !.ot = ot], "revoke_token", ot)
    ELSE Invoke(r, NoArg, sess, t)

\* autologout, lines 248-254: a request arrives.
autologout(s) ==
    \E url \in Urls :
        /\ Free(s)
        /\ LET r == Arrive(req[s], "autologout", "", url, session[s])
               ot == get(session[s], session_token)
               sess == autologout_pops(session[s])
           IN /\ session' = [session EXCEPT ![s] = sess]
              /\ req' = [req EXCEPT ![s] = autologout_revoke(r, ot, sess, now)]
        /\ UNCHANGED now

\* Variant of autologout_after_revoke: an exception of revoke_token is not caught.
autologout_after_revoke_uncaught(r, out, sess, t) ==
    IF out = "raise"
    THEN Respond(Ret(r, out), Raised)
    ELSE Invoke(Ret(r, out), NoArg, sess, t)

\* autologout, lines 253-257: whether revoke_token returned or raised,
\* route_function is called.
autologout_after_revoke(r, out, sess, t) == Invoke(Ret(r, out), NoArg, sess, t)

\* autologout, lines 253-257: revoke_token returns or raises.
autologout_revoked(s) ==
    \E out \in RevokeOutcomes :
        /\ req[s].dec = "autologout"
        /\ req[s].pc = "revoke_token"
        /\ req' = [req EXCEPT ![s] = autologout_after_revoke(req[s], out, session[s], now)]
        /\ UNCHANGED <<session, now>>

\* autologout, line 257: route_function returns.
autologout_returned(s) ==
    \E result \in Results :
        /\ req[s].dec = "autologout"
        /\ req[s].pc = "route_function"
        /\ req' = [req EXCEPT ![s] = Respond(req[s], Returned(result))]
        /\ UNCHANGED <<session, now>>

----------------------------------------------------------------------------
(* Environment *)

\* round(time.time()) advances.
Tick ==
    /\ now < MaxTime
    /\ now' = now + 1
    /\ UNCHANGED <<session, req>>

AppValues(k) ==
    IF k = session_expiry THEN Expiries
    ELSE IF k = session_refresh THEN Refreshes
    ELSE Tokens \cup {""}

\* The application stores authentication data under the session keys
\* (class docstring, lines 14-18) in a request to an undecorated route.
AppStore(s) ==
    \E k \in {session_token, session_refresh, session_expiry} :
        \E v \in AppValues(k) :
            /\ Free(s)
            /\ session' = [session EXCEPT ![s] = put(@, k, v)]
            /\ req' = [req EXCEPT ![s] = IdleReq]
            /\ UNCHANGED now

----------------------------------------------------------------------------
(* Specification *)

Init ==
    /\ session = [s \in Sessions |-> EmptySession]
    /\ req = [s \in Sessions |-> IdleReq]
    /\ now = 1

Next ==
    \/ \E s \in Active : autologin(s)
    \/ \E s \in Active : autologin_checked(s)
    \/ \E s \in Active : autologin_refreshed(s)
    \/ \E s \in Active : autologin_exchanged(s)
    \/ \E s \in Active : autologin_returned(s)
    \/ \E s \in Active : login_code(s)
    \/ \E s \in Active : login_code_checked(s)
    \/ \E s \in Active : login_code_returned(s)
    \/ \E s \in Active : login_autoexchange(s)
    \/ \E s \in Active : login_autoexchange_checked(s)
    \/ \E s \in Active : login_autoexchange_exchanged(s)
    \/ \E s \in Active : login_autoexchange_returned(s)
    \/ \E s \in Active : logged_in(s)
    \/ \E s \in Active : logged_in_checked(s)
    \/ \E s \in Active : logged_in_refreshed(s)
    \/ \E s \in Active : logged_in_returned(s)
    \/ \E s \in Active : autologout(s)
    \/ \E s \in Active : autologout_revoked(s)
    \/ \E s \in Active : autologout_returned(s)
    \/ \E s \in Active : AppStore(s)
    \/ Tick

Spec == Init /\ [][Next]_vars

\* The session is written by the five decorators only: the application stores
\* nothing under the four keys.  refresh_token is then never in flight, since
\* autologin stores an expiry with every refresh token (lines 112-113).
NextDecorators ==
    \/ \E s \in Active : autologin(s)
    \/ \E s \in Active : autologin_checked(s)
    \/ \E s \in Active : autologin_exchanged(s)
    \/ \E s \in Active : autologin_returned(s)
    \/ \E s \in Active : login_code(s)
    \/ \E s \in Active : login_code_checked(s)
    \/ \E s \in Active : login_code_returned(s)
    \/ \E s \in Active : login_autoexchange(s)
    \/ \E s \in Active : login_autoexchange_checked(s)
    \/ \E s \in Active : login_autoexchange_exchanged(s)
    \/ \E s \in Active : login_autoexchange_returned(s)
    \/ \E s \in Active : logged_in(s)
    \/ \E s \in Active : logged_in_checked(s)
    \/ \E s \in Active : logged_in_returned(s)
    \/ \E s \in Active : autologout(s)
    \/ \E s \in Active : autologout_revoked(s)
    \/ \E s \in Active : autologout_returned(s)
    \/ Tick

SpecDecorators == Init /\ [][NextDecorators]_vars

\* Two browser sessions send requests at the same time, each request taking
\* its steps in any order with those of the other.  The session is written by
\* the decorators only, and the inputs are narrowed to one URL and one
\* answer of the token endpoint.
Narrow(s) ==
    /\ req[s].url \in {"", "/a"}
    /\ req[s].got.access_token \in {"", "T1"}
    /\ req[s].got.refresh_token \in {"", "R1"}
    /\ req[s].got.expires_in \in {0, 1}

NextTwo ==
    \/ \E s \in Sessions : autologin(s) /\ Narrow(s)'
    \/ \E s \in Sessions : autologin_checked(s) /\ Narrow(s)'
    \/ \E s \in Sessions : autologin_exchanged(s) /\ Narrow(s)'
    \/ \E s \in Sessions : autologin_returned(s) /\ Narrow(s)'
    \/ \E s \in Sessions : login_code(s) /\ Narrow(s)'
    \/ \E s \in Sessions : login_code_checked(s) /\ Narrow(s)'
    \/ \E s \in Sessions : login_code_returned(s) /\ Narrow(s)'
    \/ \E s \in Sessions : login_autoexchange(s) /\ Narrow(s)'
    \/ \E s \in Sessions : login_autoexchange_checked(s) /\ Narrow(s)'
    \/ \E s \in Sessions : login_autoexchange_exchanged(s) /\ Narrow(s)'
    \/ \E s \in Sessions : login_autoexchange_returned(s) /\ Narrow(s)'
    \/ \E s \in Sessions : logged_in(s) /\ Narrow(s)'
    \/ \E s \in Sessions : logged_in_checked(s) /\ Narrow(s)'
    \/ \E s \in Sessions : logged_in_returned(s) /\ Narrow(s)'
    \/ \E s \in Sessions : autologout(s) /\ Narrow(s)'
    \/ \E s \in Sessions : autologout_revoked(s) /\ Narrow(s)'
    \/ \E s \in Sessions : autologout_returned(s) /\ Narrow(s)'

SpecTwo == Init /\ [][NextTwo]_vars

----------------------------------------------------------------------------
(* Reading a request's record *)

\* route_function has been entered in this request.
HandlerInvoked(r) == Count(r.log, "route_function") > 0

\* The call op of this request came back with out.
Answered(r, op, out) ==
    \E i \in DOMAIN r.log :
        /\ i + 1 \in DOMAIN r.log
        /\ r.log[i].op = op
        /\ r.log[i + 1].op = "returned"
        /\ r.log[i + 1].arg = out

\* The session of the request held no (truthy) token when the request arrived.
NoStoredToken(r) == ~Truthy(r.sess0, session_token)

\* The session keeps the values of the keys ks it had when the request arrived.
SameOn(sess, sess0, ks) ==
    \A k \in ks : /\ (k \in DOMAIN sess) <=> (k \in DOMAIN sess0)
                  /\ k \in DOMAIN sess => sess[k] = sess0[k]

RedirectedToLogin(r) == r.pc = "done" /\ r.resp = redirect(app_login_redirect)

----------------------------------------------------------------------------
(* Claims *)

\* C1 (as stated): with no stored token and no code, each of autologin,
\* logged_in, login_code and login_autoexchange redirects to the login URL
\* and never invokes the wrapped handler.
C1_AllFourRedirect ==
    \A s \in Sessions :
        (/\ req[s].dec \in {"autologin", "logged_in", "login_code", "login_autoexchange"}
         /\ NoStoredToken(req[s])
         /\ req[s].code = "")
        => (RedirectedToLogin(req[s]) /\ ~HandlerInvoked(req[s]))

\* C1 (amended): with no stored token and no code, autologin, logged_in and
\* login_code redirect to the login URL without invoking the handler and
\* without any external call, while login_autoexchange invokes the handler
\* with None and never redirects to login.
C1_RedirectExceptAutoexchange ==
    \A s \in Sessions :
        (NoStoredToken(req[s]) /\ req[s].code = "")
        => /\ req[s].dec \in {"autologin", "logged_in", "login_code"}
              => /\ RedirectedToLogin(req[s])
                 /\ req[s].log = <<>>
           /\ req[s].dec = "login_autoexchange"
              => /\ HandlerInvoked(req[s])
                 /\ req[s].harg = NoneArg
                 /\ req[s].resp.kind \in {"none", "result"}

C1_Witness ==
    \E s \in Sessions :
        /\ req[s].dec = "autologin"
        /\ NoStoredToken(req[s])
        /\ req[s].code = ""
        /\ RedirectedToLogin(req[s])

\* C2: an autologin request with no stored token and a code whose exchange
\* answers 200 with {access_token T, refresh_token R, expires_in E} makes
\* exactly one exchange call, with grant_type authorization_code and that
\* code, and enters the handler with the session holding token T, refresh R
\* and expiry = (time of the write) + E.
C2_ExchangePersisted ==
    \A s \in Sessions :
        (/\ req[s].dec = "autologin"
         /\ NoStoredToken(req[s])
         /\ req[s].code /= ""
         /\ req[s].got.kind = "json")
        => /\ Count(req[s].log, "asyncpost") = 1
           /\ req[s].data.grant_type = "authorization_code"
           /\ req[s].data.code = req[s].code
           /\ HandlerInvoked(req[s])
           /\ req[s].log[Len(req[s].log)].op = "route_function"
           /\ {session_token, session_refresh, session_expiry} \subseteq DOMAIN req[s].hsess
           /\ req[s].hsess[session_token] = req[s].got.access_token
           /\ req[s].hsess[session_refresh] = req[s].got.refresh_token
           /\ req[s].hsess[session_expiry] = req[s].hnow + req[s].got.expires_in
           /\ req[s].pc = "route_function" => session[s] = req[s].hsess

C2_Witness ==
    \E s \in Sessions :
        /\ req[s].dec = "autologin"
        /\ NoStoredToken(req[s])
        /\ req[s].got.kind = "json"
        /\ req[s].pc = "route_function"
        /\ req[s].hnow > 1
        /\ session[s][session_expiry] = req[s].hnow + req[s].got.expires_in

\* C3 (as stated): in autologin and logged_in, when the stored token fails
\* validation and a refresh token is stored, a new token is obtained through
\* the refresh call and the handler runs on the updated session.
C3_RefreshOnExpired ==
    \A s \in Sessions :
        (/\ req[s].dec \in {"autologin", "logged_in"}
         /\ Answered(req[s], "check_token", "false")
         /\ Truthy(req[s].sess0, session_refresh)
         /\ req[s].pc = "done")
        => (Count(req[s].log, "refresh_token") = 1 /\ HandlerInvoked(req[s]))

\* C3 (amended): in autologin and logged_in, when the stored token fails
\* validation no refresh call is made, whether or not a refresh token is
\* stored.  logged_in redirects to the login URL without invoking the handler
\* and leaves token, refresh and expiry as they were; autologin goes on as for
\* a missing token: it invokes the handler only after a code exchange that
\* answered 200, leaves token, refresh and expiry as they were unless that
\* exchange answered 200, and redirects to the login URL when there is no code.
C3_NoRefreshOnInvalid ==
    \A s \in Sessions :
        (/\ req[s].dec \in {"autologin", "logged_in"}
         /\ Answered(req[s], "check_token", "false"))
        => /\ Count(req[s].log, "refresh_token") = 0
           /\ req[s].dec = "logged_in"
              => /\ RedirectedToLogin(req[s])
                 /\ ~HandlerInvoked(req[s])
                 /\ SameOn(session[s], req[s].sess0, {session_token, session_refresh, session_expiry})
           /\ req[s].dec = "autologin"
              => /\ HandlerInvoked(req[s]) => req[s].got.kind = "json"
                 /\ req[s].got.kind /= "json"
                    => SameOn(session[s], req[s].sess0, {session_token, session_refresh, session_expiry})
                 /\ req[s].code = "" => RedirectedToLogin(req[s])

C3_Witness ==
    \E s \in Sessions :
        /\ req[s].dec = "logged_in"
        /\ Answered(req[s], "check_token", "false")
        /\ Truthy(req[s].sess0, session_refresh)
        /\ RedirectedToLogin(req[s])

C5_LogoutClearsKeys ==
    \A s \in Sessions :
        req[s].dec = "autologout"
        => /\ req[s].pc \in {"revoke_token", "route_function"}
              => DOMAIN session[s] \cap Keys = {}
           /\ HandlerInvoked(req[s]) => DOMAIN req[s].hsess \cap Keys = {}

C5_Witness ==
    \E s \in Sessions :
        /\ req[s].dec = "autologout"
        /\ Keys \subseteq DOMAIN req[s].sess0
        /\ Answered(req[s], "revoke_token", "raise")
        /\ req[s].pc = "route_function"

\* C6: when an autologin request invoked the handler while the session held a
\* pending redirect URL U, the response is a redirect to U and the rd key is
\* absent from the session afterwards.
C6_PendingRedirectConsumed ==
    \A s \in Sessions :
        (/\ req[s].dec = "autologin"
         /\ HandlerInvoked(req[s])
         /\ Truthy(req[s].hsess, session_rd)
         /\ req[s].pc = "done")
        => /\ req[s].resp = redirect(req[s].hsess[session_rd])
           /\ session_rd \notin DOMAIN session[s]

C6_Witness ==
    \E s \in Sessions :
        /\ req[s].dec = "autologin"
        /\ req[s].got.kind = "json"
        /\ Answered(req[s], "asyncpost", "json")
        /\ Truthy(req[s].hsess, session_rd)
        /\ req[s].pc = "done"
        /\ req[s].resp.kind = "redirect"

\* C7: a logged_in request that ends in a redirect to the login URL leaves the
\* rd key set to the URL of that request and has not invoked the handler.
C7_RedirectRecordsUrl ==
    \A s \in Sessions :
        (req[s].dec = "logged_in" /\ RedirectedToLogin(req[s]))
        => /\ session_rd \in DOMAIN session[s]
           /\ session[s][session_rd] = req[s].url
           /\ ~HandlerInvoked(req[s])

C7_Witness ==
    \E s \in Sessions :
        /\ req[s].dec = "logged_in"
        /\ Answered(req[s], "check_token", "true")
        /\ Answered(req[s], "refresh_token", "raise")
        /\ RedirectedToLogin(req[s])
        /\ session[s][session_rd] = req[s].url

\* C8 (as stated): in autologin, logged_in, login_code and login_autoexchange
\* a request in which check_token or refresh_token raised ends in a redirect
\* to the login URL; no exception leaves the decorator.
C8_ErrorsRedirect ==
    \A s \in Sessions :
        (/\ req[s].dec \in {"autologin", "logged_in", "login_code", "login_autoexchange"}
         /\ req[s].pc = "done"
         /\ \/ Answered(req[s], "check_token", "raise")
            \/ Answered(req[s], "refresh_token", "raise"))
        => RedirectedToLogin(req[s])

\* C9: an autologout request invokes the handler exactly once and returns its
\* result, also when revoke_token raised; revoke_token is called at most once,
\* only for a non-empty stored token, with that token, and only once the four
\* session keys are gone.
C9_LogoutRevokesThenRuns ==
    \A s \in Sessions :
        req[s].dec = "autologout"
        => /\ Count(req[s].log, "route_function") <= 1
           /\ req[s].pc = "done"
              => /\ Count(req[s].log, "route_function") = 1
                 /\ req[s].resp.kind = "result"
                 /\ req[s].resp.val \in Results
           /\ Count(req[s].log, "revoke_token") <= 1
           /\ Count(req[s].log, "revoke_token") = 1
              => /\ Truthy(req[s].sess0, session_token)
                 /\ req[s].log[1] = Ev("revoke_token", req[s].sess0[session_token])
           /\ ~Truthy(req[s].sess0, session_token) => Count(req[s].log, "revoke_token") = 0
           /\ req[s].pc = "revoke_token" => DOMAIN session[s] \cap Keys = {}

C9_Witness ==
    \E s \in Sessions :
        /\ req[s].dec = "autologout"
        /\ Truthy(req[s].sess0, session_token)
        /\ Answered(req[s], "revoke_token", "raise")
        /\ req[s].pc = "done"
        /\ req[s].resp.kind = "result"

\* C10 (as stated): a logged_in handler is invoked only in requests where a
\* stored token was present and check_token returned true for it; every other
\* logged_in request is answered by a redirect to the login URL.
C10_InvokedOnlyIfValid ==
    \A s \in Sessions :
        req[s].dec = "logged_in"
        => /\ HandlerInvoked(req[s])
              => /\ Truthy(req[s].sess0, session_token)
                 /\ Answered(req[s], "check_token", "true")
           /\ (req[s].pc = "done" /\ ~HandlerInvoked(req[s]))
              => RedirectedToLogin(req[s])

\* C11: login round trip.  After a logged_in request at U on a session
\* without a token was redirected to login, an autologin request that comes
\* next on that session with a code whose exchange answers 200 is answered
\* by a redirect to U and leaves no rd key; a logged_in request for U that
\* comes next finds a stored token and, when check_token answers true,
\* invokes its handler and returns its result instead of redirecting to login.
C11_LoginRoundTrip ==
    \A s \in Sessions :
        /\ (/\ req[s].trip.stage = 1
            /\ req[s].dec = "autologin"
            /\ req[s].code /= ""
            /\ req[s].got.kind = "json")
           => /\ HandlerInvoked(req[s])
              /\ req[s].hsess[session_rd] = req[s].trip.url
              /\ req[s].pc = "done"
                 => /\ req[s].resp = redirect(req[s].trip.url)
                    /\ session_rd \notin DOMAIN session[s]
        /\ (/\ req[s].trip.stage = 2
            /\ req[s].dec = "logged_in"
            /\ req[s].url = req[s].trip.url)
           => /\ Truthy(req[s].sess0, session_token)
              /\ session_rd \notin DOMAIN req[s].sess0
              /\ Count(req[s].log, "check_token") = 1
              /\ Answered(req[s], "check_token", "true")
                 => /\ HandlerInvoked(req[s])
                    /\ ~RedirectedToLogin(req[s])
                    /\ req[s].pc = "done" => req[s].resp.kind = "result"

C11_Witness ==
    \E s \in Sessions :
        /\ req[s].trip.stage = 2
        /\ req[s].dec = "logged_in"
        /\ req[s].url = req[s].trip.url
        /\ Answered(req[s], "check_token", "true")
        /\ req[s].pc = "done"
        /\ req[s].resp.kind = "result"


\* The stored token of the request was missing or check_token answered false.
NoValidToken(r) == NoStoredToken(r) \/ Answered(r, "check_token", "false")

\* C12 (as stated): a logged_in request with no valid stored token and a code
\* in the query string exchanges the code.
C12_LoggedInExchanges ==
    \A s \in Sessions :
        (/\ req[s].dec = "logged_in"
         /\ NoValidToken(req[s])
         /\ req[s].code /= ""
         /\ req[s].pc = "done")
        => Count(req[s].log, "asyncpost") = 1

\* C12 (amended): a logged_in request with no valid stored token ignores a
\* code in the query string: no exchange call is made, token, refresh and
\* expiry stay as they were, rd is set to the URL of the request, the handler
\* is not invoked and the response is a redirect to login.
C12_LoggedInIgnoresCode ==
    \A s \in Sessions :
        (/\ req[s].dec = "logged_in"
         /\ NoValidToken(req[s])
         /\ req[s].code /= "")
        => /\ Count(req[s].log, "asyncpost") = 0
           /\ RedirectedToLogin(req[s])
           /\ ~HandlerInvoked(req[s])
           /\ SameOn(session[s], req[s].sess0, {session_token, session_refresh, session_expiry})
           /\ session[s] = put(req[s].sess0, session_rd, req[s].url)

C12_Witness ==
    \E s \in Sessions :
        /\ req[s].dec = "logged_in"
        /\ NoStoredToken(req[s])
        /\ req[s].code /= ""
        /\ RedirectedToLogin(req[s])

\* C13: login_code passes None to the handler when check_token answers true
\* for the stored token; with no valid stored token it redirects to login
\* when there is no code and passes the raw code otherwise; it never makes an
\* exchange or refresh call and never changes the session.
C13_LoginCodePassesRawCode ==
    \A s \in Sessions :
        req[s].dec = "login_code"
        => /\ Answered(req[s], "check_token", "true")
              => /\ Count(req[s].log, "route_function") = 1
                 /\ req[s].harg = NoneArg
           /\ (NoValidToken(req[s]) /\ req[s].code = "")
              => /\ RedirectedToLogin(req[s])
                 /\ ~HandlerInvoked(req[s])
           /\ (NoValidToken(req[s]) /\ req[s].code /= "")
              => /\ Count(req[s].log, "route_function") = 1
                 /\ req[s].harg = StrArg(req[s].code)
           /\ Count(req[s].log, "asyncpost") = 0
           /\ Count(req[s].log, "refresh_token") = 0
           /\ session[s] = req[s].sess0

C13_Witness ==
    \E s \in Sessions :
        /\ req[s].dec = "login_code"
        /\ Answered(req[s], "check_token", "false")
        /\ req[s].code /= ""
        /\ req[s].harg = StrArg(req[s].code)
        /\ Keys \subseteq DOMAIN session[s]
        /\ req[s].pc = "done"

\* C14: login_autoexchange leaves the session as it found it on every path,
\* never calls refresh_token, hands an exchanged token to the handler without
\* storing it, and on a non-200 answer of the exchange invokes the handler
\* with None instead of redirecting.
C14_AutoexchangeKeepsSession ==
    \A s \in Sessions :
        req[s].dec = "login_autoexchange"
        => /\ session[s] = req[s].sess0
           /\ Count(req[s].log, "refresh_token") = 0
           /\ req[s].got.kind = "json"
              => /\ HandlerInvoked(req[s])
                 /\ req[s].harg = AuthToken(req[s].got)
                 /\ req[s].hsess = req[s].sess0
           /\ req[s].got.kind = "status"
              => /\ HandlerInvoked(req[s])
                 /\ req[s].harg = NoneArg
                 /\ req[s].resp.kind \in {"none", "result"}

C14_Witness ==
    \E s \in Sessions :
        /\ req[s].dec = "login_autoexchange"
        /\ req[s].got.kind = "status"
        /\ req[s].pc = "done"
        /\ req[s].resp.kind = "result"


\* C15 (as stated): whenever an autologin handler is invoked, its first
\* argument is an AuthToken object, never a bare token string or None.
C15_AlwaysAuthToken ==
    \A s \in Sessions :
        (req[s].dec = "autologin" /\ HandlerInvoked(req[s]))
        => req[s].harg.kind = "AuthToken"

\* C16: in autologin and logged_in, once check_token answered true for the
\* stored token: with expiry and refresh both stored the handler gets an
\* AuthToken built from the stored token, the stored refresh and
\* expires_in = stored expiry - current time, and no refresh call is made;
\* with refresh stored and no expiry, exactly one refresh call is made with
\* the stored refresh token, the handler gets its result, and when it raises
\* the handler is not invoked and the response is a redirect to login, with
\* rd set by logged_in and the session untouched by autologin.  In no request
\* of any decorator is an external call made twice.
C16_ValidTokenBranches ==
    \A s \in Sessions :
        /\ (/\ req[s].dec \in {"autologin", "logged_in"}
            /\ Answered(req[s], "check_token", "true")
            /\ Truthy(req[s].sess0, session_refresh))
           => IF Truthy(req[s].sess0, session_expiry)
              THEN /\ Count(req[s].log, "refresh_token") = 0
                   /\ Count(req[s].log, "route_function") = 1
                   /\ req[s].harg =
                        [kind |-> "AuthToken",
                         token |-> req[s].sess0[session_token],
                         refresh_token |-> req[s].sess0[session_refresh],
                         expires_in |-> req[s].sess0[session_expiry] - req[s].hnow]
              ELSE /\ Count(req[s].log, "refresh_token") = 1
                   /\ req[s].log[3] = Ev("refresh_token", req[s].sess0[session_refresh])
                   /\ req[s].got.kind = "json"
                      => /\ Count(req[s].log, "route_function") = 1
                         /\ req[s].harg = AuthToken(req[s].got)
                   /\ req[s].got.kind = "raise"
                      => /\ ~HandlerInvoked(req[s])
                         /\ RedirectedToLogin(req[s])
                         /\ req[s].dec = "logged_in"
                            => session[s] = put(req[s].sess0, session_rd, req[s].url)
                         /\ req[s].dec = "autologin"
                            => session[s] = req[s].sess0
        /\ \A op \in {"check_token", "refresh_token", "asyncpost", "revoke_token"} :
               Count(req[s].log, op) <= 1

C16_Witness ==
    \E s \in Sessions :
        /\ req[s].dec = "autologin"
        /\ Answered(req[s], "check_token", "true")
        /\ Truthy(req[s].sess0, session_refresh)
        /\ Truthy(req[s].sess0, session_expiry)
        /\ req[s].hnow = 2
        /\ req[s].harg.expires_in = req[s].sess0[session_expiry] - 2
        /\ req[s].pc = "done"


\* C19: an autologin request that ends in a redirect to the login URL (no
\* token and no code, exchange answering non-200, refresh raising) leaves the
\* session exactly as it found it and has not invoked the handler; a pending
\* redirect survives.
C19_FailedLoginKeepsSession ==
    \A s \in Sessions :
        (req[s].dec = "autologin" /\ RedirectedToLogin(req[s]))
        => /\ session[s] = req[s].sess0
           /\ ~HandlerInvoked(req[s])

C19_Witness ==
    \E s \in Sessions :
        /\ req[s].dec = "autologin"
        /\ req[s].got.kind = "status"
        /\ RedirectedToLogin(req[s])
        /\ Truthy(req[s].sess0, session_rd)
        /\ req[s].url /= req[s].sess0[session_rd]
        /\ session[s][session_rd] = req[s].sess0[session_rd]

\* C20: on a session that went through an autologout request and has had no
\* successful autologin code exchange since, every logged_in request
\* redirects to the login URL without invoking its handler and without asking
\* check_token, whether revoke_token returned, raised or was not called.
C20_LoggedOutStaysOut ==
    \A s \in Sessions :
        (req[s].loggedout /= "no" /\ req[s].dec = "logged_in")
        => /\ RedirectedToLogin(req[s])
           /\ ~HandlerInvoked(req[s])
           /\ req[s].log = <<>>

C20_Witness ==
    \E s \in Sessions :
        /\ req[s].loggedout = "revoke_failed"
        /\ req[s].trip.stage = 1
        /\ req[s].dec = "logged_in"
        /\ RedirectedToLogin(req[s])


TokenKeys == {session_token, session_expiry, session_refresh}

\* C18: when only the five decorators write the session, starting from an
\* empty one, the token, expiry and refresh keys are all present or all
\* absent; a step changes any of them only as autologin's exchange that
\* answered 200 (which leaves all three present) or as autologout's pops
\* (which leave all three absent).
C18_TokenKeysTogether ==
    /\ [](\A s \in Sessions :
             TokenKeys \cap DOMAIN session[s] \in {{}, TokenKeys})
    /\ [][\A s \in Sessions :
             ~SameOn(session'[s], session[s], TokenKeys)
             => \/ /\ req[s].dec = "autologin"
                   /\ req[s].pc = "asyncpost"
                   /\ req'[s].got.kind = "json"
                   /\ TokenKeys \subseteq DOMAIN session'[s]
                \/ /\ req'[s].dec = "autologout"
                   /\ req[s].pc \in {"idle", "done"}
                   /\ TokenKeys \cap DOMAIN session'[s] = {}]_vars

C18_Witness ==
    \E s \in Sessions :
        /\ req[s].dec = "autologout"
        /\ TokenKeys \subseteq DOMAIN req[s].sess0
        /\ session_rd \in DOMAIN req[s].sess0
        /\ req[s].pc = "done"
        /\ TokenKeys \cap DOMAIN session[s] = {}


----------------------------------------------------------------------------
(* A request run on its own: each decorator from entry to return *)

\* What check_token answered in the request, "none" when it was not called.
CheckOut(r) ==
    IF Answered(r, "check_token", "true") THEN "true"
    ELSE IF Answered(r, "check_token", "false") THEN "false"
    ELSE IF Answered(r, "check_token", "raise") THEN "raise"
    ELSE "none"

\* The decorator returned resp without calling route_function.
Stopped(resp, sess) == [resp |-> resp, harg |-> NoneArg, invoked |-> FALSE, session |-> sess]

\* route_function was called with arg and its result returned.
Ran(result, arg, sess) == [resp |-> Returned(result), harg |-> arg, invoked |-> TRUE, session |-> sess]

\* autologin, lines 91-95 and 114-118: route_function, then the pending redirect.
autologin_ran(result, arg, sess) ==
    IF Truthy(sess, session_rd)
    THEN [resp |-> redirect(sess[session_rd]), harg |-> arg, invoked |-> TRUE,
          session |-> pop(sess, session_rd)]
    ELSE Ran(result, arg, sess)

\* autologin, lines 78-118.
autologin_alone(code, url, sess, chk, got, t, result) ==
    IF Truthy(sess, session_token) /\ chk = "raise"
    THEN Stopped(Raised, sess)
    ELSE IF Truthy(sess, session_token) /\ chk = "true"
    THEN IF Truthy(sess, session_expiry) /\ Truthy(sess, session_refresh)
         THEN autologin_ran(result, _constructAuthToken(sess[session_token], sess[session_expiry], sess[session_refresh], t), sess)
         ELSE IF Truthy(sess, session_refresh)
              THEN IF got.kind = "json"
                   THEN autologin_ran(result, AuthToken(got), sess)
                   ELSE Stopped(redirect(app_login_redirect), sess)
              ELSE autologin_ran(result, StrArg(sess[session_token]), sess)
    ELSE IF code /= ""
    THEN CASE got.kind = "json" ->
                autologin_ran(result, AuthToken(got), autologin_persist(sess, AuthToken(got), t))
           [] got.kind = "status" -> Stopped(redirect(app_login_redirect), sess)
           [] OTHER -> Stopped(Raised, sess)
    ELSE Stopped(redirect(app_login_redirect), sess)

\* login_code, lines 143-150.
login_code_alone(code, url, sess, chk, got, t, result) ==
    IF Truthy(sess, session_token) /\ chk = "raise"
    THEN Stopped(Raised, sess)
    ELSE IF Truthy(sess, session_token) /\ chk = "true"
    THEN Ran(result, NoneArg, sess)
    ELSE IF code = ""
    THEN Stopped(redirect(app_login_redirect), sess)
    ELSE Ran(result, StrArg(code), sess)

\* login_autoexchange, lines 173-195.
login_autoexchange_alone(code, url, sess, chk, got, t, result) ==
    IF Truthy(sess, session_token) /\ chk = "raise"
    THEN Stopped(Raised, sess)
    ELSE IF Truthy(sess, session_token) /\ chk = "true"
    THEN Ran(result, StrArg(sess[session_token]), sess)
    ELSE IF code /= ""
    THEN CASE got.kind = "json" -> Ran(result, AuthToken(got), sess)
           [] got.kind = "status" -> Ran(result, NoneArg, sess)
           [] OTHER -> Stopped(Raised, sess)
    ELSE Ran(result, NoneArg, sess)

\* logged_in, lines 215-231.
logged_in_alone(code, url, sess, chk, got, t, result) ==
    IF Truthy(sess, session_token) /\ chk = "raise"
    THEN Stopped(Raised, sess)
    ELSE IF Truthy(sess, session_token) /\ chk = "true"
    THEN IF Truthy(sess, session_expiry) /\ Truthy(sess, session_refresh)
         THEN Ran(result, _constructAuthToken(sess[session_token], sess[session_expiry], sess[session_refresh], t), sess)
         ELSE IF Truthy(sess, session_refresh)
              THEN IF got.kind = "json"
                   THEN Ran(result, AuthToken(got), sess)
                   ELSE Stopped(redirect(app_login_redirect), put(sess, session_rd, url))
              ELSE Ran(result, StrArg(sess[session_token]), sess)
    ELSE Stopped(redirect(app_login_redirect), put(sess, session_rd, url))

\* autologout, lines 247-257.
autologout_alone(code, url, sess, chk, got, t, result) ==
    Ran(result, NoArg, autologout_pops(sess))

\* The finished request r, had it been the only one running: the decorator
\* applied to what r received (query, URL, session, answers of its calls,
\* time of its handler call, result of its handler).
Alone(r) ==
    CASE r.dec = "autologin" ->
            autologin_alone(r.code, r.url, r.sess0, CheckOut(r), r.got, r.hnow, r.resp.val)
      [] r.dec = "login_code" ->
            login_code_alone(r.code, r.url, r.sess0, CheckOut(r), r.got, r.hnow, r.resp.val)
      [] r.dec = "login_autoexchange" ->
            login_autoexchange_alone(r.code, r.url, r.sess0, CheckOut(r), r.got, r.hnow, r.resp.val)
      [] r.dec = "logged_in" ->
            logged_in_alone(r.code, r.url, r.sess0, CheckOut(r), r.got, r.hnow, r.resp.val)
      [] r.dec = "autologout" ->
            autologout_alone(r.code, r.url, r.sess0, CheckOut(r), r.got, r.hnow, r.resp.val)

\* C17: requests on distinct sessions share nothing: a step of a request
\* changes only its own request record and its own session, and a request
\* that finished while another session's request was taking steps has the
\* response, handler argument and final session of the same request run alone.
C17_RequestsIndependent ==
    /\ [][\A s \in Sessions :
             (req'[s] /= req[s] \/ session'[s] /= session[s])
             => \A x \in Sessions \ {s} : req'[x] = req[x] /\ session'[x] = session[x]]_vars
    /\ [](\A s \in Sessions :
             req[s].pc = "done"
             => [resp |-> req[s].resp, harg |-> req[s].harg,
                 invoked |-> HandlerInvoked(req[s]), session |-> session[s]]
                = Alone(req[s]))

C17_Witness ==
    /\ req["s1"].dec = "autologin"
    /\ req["s1"].pc = "done"
    /\ req["s1"].got.kind = "json"
    /\ req["s2"].dec = "logged_in"
    /\ req["s2"].pc = "check_token"
    /\ req["s2"].trip.stage = 2

====
